---- MODULE Spec2Model ----
(***************************************************************************)
(* Mezzanine configurator: the accessory operations of ConfigurationPanel  *)
(* (src/src/components/ConfigurationPanel.tsx, and the later copy of the   *)
(* same component kept in src/src/components/SummaryPanel.tsx:154-707),    *)
(* the occupancy calculator and the auto-fit of railings.                  *)
(*                                                                         *)
(* All lengths are exact decimal numbers held in DECIMETRES (1 m = 10):    *)
(* platform sizes come from sliders with step 100 mm, gate widths are      *)
(* 2000/2500/3000 mm and the constants are 1.0, 1.4, 3.0 m, so every       *)
(* perimeter is a whole number of decimetres.                              *)
(***************************************************************************)
EXTENDS Integers, Sequences, FiniteSets, TLC

VARIABLES
    panel,      \* which copy of the component is mounted
    config,     \* the MezzanineConfig held by App (length, width in mm; accessories)
    now,        \* last value returned by Date.now()
    lastOp,     \* the last handler that ran, with its arguments
    called,     \* did the last handler call onConfigChange
    alerted,    \* the alert() the last handler raised: <<kind, amount>>
    result,     \* value returned by the last direct call of a helper function
    walk,       \* the Railings components of the viewer: cursor, remaining length, placements
    storage,    \* localStorage under 'mezzanine-config', and how the last write to it ended
    form        \* the quote request form: its mounted instances, calls in flight, timers

vars == <<panel, config, now, lastOp, called, alerted, result, walk, storage, form>>

----------------------------------------------------------------------------
(* Bounds *)

MaxAccessories == 2     \* longest accessory list explored
MaxQuantity == 2        \* largest quantity reached with the + buttons
MaxTime == 2            \* largest Date.now() value
MaxFnAccessories == 3   \* longest accessory list fed to the pure functions

----------------------------------------------------------------------------
(* Units and program constants *)

DM == 10                \* decimetres per metre
REPOS_LENGTH == 30      \* 3.0 m
REPOS_DEPTH == 14       \* 1.4 m
STAIR_WIDTH == 10       \* 1.0 m per stair unit
DEFAULT_RAILING_LENGTH == 100   \* 10 m

CP == "ConfigurationPanel.tsx"
SP == "SummaryPanel.tsx"
Panels == {CP, SP}

Undefined == "undefined"

Max(a, b) == IF a >= b THEN a ELSE b
\* Math.floor / Math.ceil of a length in decimetres, in whole metres
FloorM(x) == x \div DM
CeilM(x) == -((-x) \div DM)

\* String.prototype.includes for the stair variants the select offers
includes(s, kw) ==
    CASE kw = "Vinkel" -> s \in {"Vinkel 1m", "Vinkel 1.2m"}
      [] kw = "Corner stairs" -> s \in {"Corner stairs 1m", "Corner stairs 1.2m"}
      [] OTHER -> FALSE

\* the keyword each copy looks for
CornerKeyword(p) == IF p = CP THEN "Vinkel" ELSE "Corner stairs"

\* the <option> values of the stair select
StairOptions(p) ==
    IF p = CP
    THEN {"Straight 1m", "Straight 1.5m", "Straight 2m", "Vinkel 1m", "Vinkel 1.2m"}
    ELSE {"Straight 1m", "Straight 1.5m", "Straight 2m", "Corner stairs 1m", "Corner stairs 1.2m"}

GateOptions == {"2000mm", "2500mm", "3000mm"}

\* parseFloat of a gate width: the leading number of the string
parseFloat(w) ==
    CASE w = "2000mm" -> 2000
      [] w = "2500mm" -> 2500
      [] w = "3000mm" -> 3000
      [] OTHER -> 0

----------------------------------------------------------------------------
(* Sequence helpers (Array.prototype) *)

\* findIndex by id: first position, 0 when absent (-1 in the source)
findIndex(s, id) ==
    IF \E i \in 1..Len(s) : s[i].id = id
    THEN CHOOSE i \in 1..Len(s) : s[i].id = id /\ \A j \in 1..(i-1) : s[j].id # id
    ELSE 0

\* splice(index, 1)
splice(s, i) == SubSeq(s, 1, i-1) \o SubSeq(s, i+1, Len(s))

\* { ...a, ...updates }
Merge(a, updates) ==
    [k \in DOMAIN a |-> IF k \in DOMAIN updates THEN updates[k] ELSE a[k]]

----------------------------------------------------------------------------
(* Occupancy calculator *)

isStairs(a) == a.type = "stairs"
isRailings(a) == a.type = "railings"
isPalletGate(a) == a.type = "palletGate"

hasVinkelStair(accessories) ==
    \E i \in 1..Len(accessories) :
        isStairs(accessories[i]) /\ includes(accessories[i].stairType, "Vinkel")

hasCornerStair(accessories) ==
    \E i \in 1..Len(accessories) :
        isStairs(accessories[i]) /\ includes(accessories[i].stairType, "Corner stairs")

\* ConfigurationPanel.tsx
calculatePerimeter(length, width, accessories) ==
    LET perimeter == 2 * ((length \div 100) + (width \div 100))
    IN  IF hasVinkelStair(accessories)
        THEN perimeter + 2 * REPOS_DEPTH + REPOS_LENGTH
        ELSE perimeter

\* a plausible slip: the three new edges are added without the front edge they replace
calculatePerimeterSP_AddsAllEdges(length, width, accessories) ==
    LET perimeter == 2 * ((length \div 100) + (width \div 100))
    IN  IF hasCornerStair(accessories)
        THEN perimeter + 2 * REPOS_DEPTH + REPOS_LENGTH
        ELSE perimeter

\* SummaryPanel.tsx copy
calculatePerimeterSP(length, width, accessories) ==
    LET perimeter == 2 * ((length \div 100) + (width \div 100))
    IN  IF hasCornerStair(accessories)
        THEN perimeter + 2 * REPOS_DEPTH
        ELSE perimeter

RECURSIVE StairsSpaceFrom(_, _)
StairsSpaceFrom(stairs, kw) ==
    IF stairs = <<>> THEN 0
    ELSE Head(stairs).quantity * STAIR_WIDTH
         + (IF includes(Head(stairs).stairType, kw) THEN REPOS_DEPTH ELSE 0)
         + StairsSpaceFrom(Tail(stairs), kw)

calculateStairsSpace(accessories) ==
    StairsSpaceFrom(SelectSeq(accessories, isStairs), "Vinkel")

calculateStairsSpaceSP(accessories) ==
    StairsSpaceFrom(SelectSeq(accessories, isStairs), "Corner stairs")

RECURSIVE GatesSpaceFrom(_)
GatesSpaceFrom(gates) ==
    IF gates = <<>> THEN 0
    ELSE LET w == IF Head(gates).width = Undefined THEN "2000mm" ELSE Head(gates).width
         IN  Head(gates).quantity * (parseFloat(w) \div 100) + GatesSpaceFrom(Tail(gates))

calculatePalletGatesSpace(accessories) ==
    GatesSpaceFrom(SelectSeq(accessories, isPalletGate))

RECURSIVE RailingLengthFrom(_)
RailingLengthFrom(railings) ==
    IF railings = <<>> THEN 0
    ELSE Head(railings).quantity * Head(railings).length + RailingLengthFrom(Tail(railings))

calculateTotalRailingLength(accessories) ==
    RailingLengthFrom(SelectSeq(accessories, isRailings))

\* a plausible slip: the pallet gates are not subtracted
calculateAvailablePerimeter_NoGates(cfg) ==
    LET perimeter == calculatePerimeter(cfg.length, cfg.width, cfg.accessories)
        stairsSpace == calculateStairsSpace(cfg.accessories)
    IN  Max(0, perimeter - stairsSpace)

\* ConfigurationPanel.tsx
calculateAvailablePerimeter(cfg) ==
    LET perimeter == calculatePerimeter(cfg.length, cfg.width, cfg.accessories)
        stairsSpace == calculateStairsSpace(cfg.accessories)
        palletGatesSpace == calculatePalletGatesSpace(cfg.accessories)
    IN  Max(0, perimeter - stairsSpace - palletGatesSpace)

\* SummaryPanel.tsx copy
calculateAvailablePerimeterSP(cfg) ==
    LET perimeter == calculatePerimeterSP(cfg.length, cfg.width, cfg.accessories)
        stairsSpace == calculateStairsSpaceSP(cfg.accessories)
        palletGatesSpace == calculatePalletGatesSpace(cfg.accessories)
    IN  IF hasCornerStair(cfg.accessories)
        THEN Max(0, DM * FloorM(perimeter))
        ELSE Max(0, DM * CeilM(perimeter - stairsSpace - palletGatesSpace))

\* the calculateAvailablePerimeter in scope in copy p
AvailablePerimeterIn(p, cfg) ==
    IF p = CP THEN calculateAvailablePerimeter(cfg) ELSE calculateAvailablePerimeterSP(cfg)

----------------------------------------------------------------------------
(* Auto-fit *)

\* a plausible slip: the Math.max(1, ...) clamps are left out
ShrinkRailing_NoClamp(railing, remainingToReduce) ==
    LET currentLength == railing.quantity * railing.length
        length == IF railing.length # 0 THEN railing.length ELSE DEFAULT_RAILING_LENGTH
        quantity == railing.quantity
        newTotalLength == currentLength - remainingToReduce
    IN  IF newTotalLength >= DM * quantity
        THEN [railing EXCEPT !.length = DM * (newTotalLength \div (DM * quantity))]
        ELSE LET newQuantity == newTotalLength \div length
                 finalLength == IF newQuantity = 0 THEN 0
                                ELSE newTotalLength \div (DM * newQuantity)
             IN  [railing EXCEPT !.quantity = newQuantity, !.length = DM * finalLength]

\* the else branch of the loop body: the railing is longer than what is left to reduce
ShrinkRailing(railing, remainingToReduce) ==
    LET currentLength == railing.quantity * railing.length
        length == IF railing.length # 0 THEN railing.length ELSE DEFAULT_RAILING_LENGTH
        quantity == railing.quantity
        newTotalLength == currentLength - remainingToReduce
    IN  IF newTotalLength >= DM * quantity      \* newLength >= 1
        THEN [railing EXCEPT !.length = DM * (newTotalLength \div (DM * quantity))]
        ELSE LET newQuantity == Max(1, newTotalLength \div length)
                 finalLength == newTotalLength \div (DM * newQuantity)
             IN  [railing EXCEPT !.quantity = newQuantity,
                                 !.length = DM * Max(1, finalLength)]

RECURSIVE ReduceRailings(_, _, _, _)
ReduceRailings(adjustedAccessories, railings, i, remainingToReduce) ==
    IF ~(i >= 1 /\ remainingToReduce > 0) THEN adjustedAccessories
    ELSE LET railing == railings[i]
             railingIndex == findIndex(adjustedAccessories, railing.id)
             currentLength == railing.quantity * railing.length
         IN  IF railingIndex = 0
             THEN ReduceRailings(adjustedAccessories, railings, i - 1, remainingToReduce)
             ELSE IF currentLength <= remainingToReduce
             THEN ReduceRailings(splice(adjustedAccessories, railingIndex), railings,
                                 i - 1, remainingToReduce - currentLength)
             ELSE ReduceRailings(
                      [adjustedAccessories EXCEPT
                          ![railingIndex] = ShrinkRailing(railing, remainingToReduce)],
                      railings, i - 1, 0)

\* a plausible slip: "available" taken as the perimeter still free of railings
autoAdjustRailingsForPerimeter_FreeSpace(p, cfg) ==
    LET currentRailingLength == calculateTotalRailingLength(cfg.accessories)
        availablePerimeter == AvailablePerimeterIn(p, cfg) - currentRailingLength
        railings == SelectSeq(cfg.accessories, isRailings)
    IN  IF currentRailingLength <= availablePerimeter
        THEN cfg.accessories
        ELSE ReduceRailings(cfg.accessories, railings, Len(railings),
                            currentRailingLength - availablePerimeter)

autoAdjustRailingsForPerimeter(p, cfg) ==
    LET availablePerimeter == AvailablePerimeterIn(p, cfg)
        currentRailingLength == calculateTotalRailingLength(cfg.accessories)
        railings == SelectSeq(cfg.accessories, isRailings)
    IN  IF currentRailingLength <= availablePerimeter
        THEN cfg.accessories
        ELSE ReduceRailings(cfg.accessories, railings, Len(railings),
                            currentRailingLength - availablePerimeter)

----------------------------------------------------------------------------
(* The configuration and the handlers of ConfigurationPanel *)

DefaultStamp == 0       \* 'railings-default': not a number, so unlike every `${type}-${Date.now()}`

AccessoryTypes == {"stairs", "railings", "palletGate"}

\* values typed into the railing length field (decimetres), read with parseFloat
RailingLengthInputs == {15, 320, 350}

\* variants chosen in the stair select
StairTypeInputs(p) == StairOptions(p) \ {"Straight 1.5m", "Straight 2m"}

\* widths chosen in the gate select
GateWidthInputs == GateOptions \ {"3000mm"}

DEFAULT_CONFIG ==
    [length |-> 13000, width |-> 3000,
     accessories |-> << [id |-> <<"railings", DefaultStamp>>, type |-> "railings",
                         quantity |-> 1, stairType |-> Undefined,
                         length |-> 1 * DM, width |-> Undefined] >>]

NoUpdates == [k \in {} |-> 0]
NoId == <<"", 0>>
NoAlert == <<"none", 0>>
NoResult == [accessories |-> <<>>, available |-> 0, first |-> <<>>]

\* the quote request form has never been opened
NoForm == [showQuoteForm |-> FALSE,
           formData |-> [name |-> << >>, email |-> << >>, telephone |-> << >>,
                         postalCode |-> << >>],
           instances |-> << >>, pending |-> {}, timers |-> {}, succeeded |-> {},
           sent |-> 0]

\* nothing stored under the key, nothing written yet
NoStorage == [item |-> Undefined, setItem |-> "none", thrown |-> FALSE]

\* the viewer has not rendered any railing
NoWalk ==
    [status |-> "idle", entry |-> 0, perimeter |-> 0, currentDistance |-> 0,
     remainingLength |-> 0, iterationCount |-> 0, placements |-> {}]

newAccessory(type, t) ==
    [id |-> <<type, t>>, type |-> type, quantity |-> 1,
     stairType |-> IF type = "stairs" THEN "Straight 1m" ELSE Undefined,
     length |-> IF type = "railings" THEN DEFAULT_RAILING_LENGTH ELSE 0,
     width |-> IF type = "palletGate" THEN "2000mm" ELSE Undefined]

\* onConfigChange({...config, accessories})
onConfigChange(accessories, alertRaised) ==
    /\ config' = [config EXCEPT !.accessories = accessories]
    /\ called' = TRUE
    /\ alerted' = alertRaised

\* alert(...); return;  before anything was changed
Reject(kind, amount) ==
    /\ config' = config
    /\ called' = FALSE
    /\ alerted' = <<kind, amount>>

addAccessory(type) ==
    /\ Len(config.accessories) < MaxAccessories
    /\ lastOp' = [name |-> "addAccessory", id |-> <<type, 0>>, updates |-> NoUpdates]
    /\ UNCHANGED <<panel, result, walk, storage, form>>
    /\ LET availablePerimeter == AvailablePerimeterIn(panel, config)
           currentRailingLength == calculateTotalRailingLength(config.accessories)
           defaultLength == DEFAULT_RAILING_LENGTH
       IN  IF type = "railings" /\ currentRailingLength + defaultLength > availablePerimeter
           THEN /\ Reject("cannot_add", availablePerimeter)
                /\ now' = now
           ELSE \E t \in {now, now + 1} :
                /\ t <= MaxTime
                /\ now' = t
                /\ LET newAccessories == Append(config.accessories, newAccessory(type, t))
                   IN  IF type \in {"stairs", "palletGate"}
                       THEN onConfigChange(
                                autoAdjustRailingsForPerimeter(
                                    panel, [config EXCEPT !.accessories = newAccessories]),
                                NoAlert)
                       ELSE onConfigChange(newAccessories, NoAlert)

removeAccessory(id) ==
    /\ lastOp' = [name |-> "removeAccessory", id |-> id, updates |-> NoUpdates]
    /\ UNCHANGED <<panel, now, result, walk, storage, form>>
    /\ onConfigChange(SelectSeq(config.accessories, LAMBDA a : a.id # id), NoAlert)

\* a plausible slip: the quantity of the edit is ignored
RequestedRailingTotal_KeepsOldQuantity(accessories, accessory, id, updates) ==
    LET otherRailingsLength ==
            RailingLengthFrom(
                SelectSeq(accessories, LAMBDA a : a.type = "railings" /\ a.id # id))
        newLength == IF "length" \in DOMAIN updates THEN updates.length ELSE accessory.length
    IN  otherRailingsLength + accessory.quantity * newLength

\* updateAccessory, "validate against available perimeter": the total the edit asks for
RequestedRailingTotal(accessories, accessory, id, updates) ==
    LET otherRailingsLength ==
            RailingLengthFrom(
                SelectSeq(accessories, LAMBDA a : a.type = "railings" /\ a.id # id))
        newQuantity == IF "quantity" \in DOMAIN updates
                       THEN updates.quantity ELSE accessory.quantity
        newLength == IF "length" \in DOMAIN updates THEN updates.length ELSE accessory.length
        newTotalForThis == newQuantity * newLength
    IN  otherRailingsLength + newTotalForThis

updateAccessory(id, updates) ==
    /\ UNCHANGED <<panel, now, result, walk, storage, form>>
    /\ LET idx == findIndex(config.accessories, id)
       IN  /\ idx # 0
           /\ LET accessory == config.accessories[idx]
                  kw == CornerKeyword(panel)
                  isVinkel == "stairType" \in DOMAIN updates /\ includes(updates.stairType, kw)
                  currentVinkelStairs ==
                      SelectSeq(config.accessories,
                                LAMBDA a : a.type = "stairs" /\ includes(a.stairType, kw)
                                           /\ a.id # id)
                  availablePerimeter == AvailablePerimeterIn(panel, config)
                  totalRailingLength ==
                      RequestedRailingTotal(config.accessories, accessory, id, updates)
                  newAccessories ==
                      [i \in 1..Len(config.accessories) |->
                          IF config.accessories[i].id = id
                          THEN Merge(config.accessories[i], updates)
                          ELSE config.accessories[i]]
                  adjustedAccessories ==
                      autoAdjustRailingsForPerimeter(
                          panel, [config EXCEPT !.accessories = newAccessories])
                  originalRailingLength == calculateTotalRailingLength(newAccessories)
                  adjustedRailingLength == calculateTotalRailingLength(adjustedAccessories)
              IN  /\ lastOp' = [name |-> "updateAccessory", id |-> id, updates |-> updates]
                  /\ IF accessory.type = "stairs" /\ "stairType" \in DOMAIN updates
                        /\ isVinkel /\ Len(currentVinkelStairs) > 0
                     THEN Reject("only_one_corner", 0)
                     ELSE IF accessory.type = "railings"
                             /\ totalRailingLength > availablePerimeter
                     THEN Reject("cannot_update", totalRailingLength)
                     ELSE IF accessory.type \in {"stairs", "palletGate"}
                             /\ "quantity" \in DOMAIN updates
                     THEN onConfigChange(
                              adjustedAccessories,
                              IF originalRailingLength # adjustedRailingLength
                              THEN <<"reduced", originalRailingLength - adjustedRailingLength>>
                              ELSE NoAlert)
                     ELSE onConfigChange(newAccessories, NoAlert)

----------------------------------------------------------------------------
(* The controls rendered for each accessory: the only callers of the handlers *)

AddButton == \E type \in AccessoryTypes : addAccessory(type)

RemoveButton == \E i \in 1..Len(config.accessories) : removeAccessory(config.accessories[i].id)

StairTypeSelect ==
    \E i \in 1..Len(config.accessories) :
        /\ config.accessories[i].type = "stairs"
        /\ \E v \in StairTypeInputs(panel) :
            /\ v # config.accessories[i].stairType
            /\ updateAccessory(config.accessories[i].id, [stairType |-> v])

\* the - and + buttons of a stair are disabled while it is a corner stair
StairQuantityButtons ==
    \E i \in 1..Len(config.accessories) :
        LET accessory == config.accessories[i] IN
        /\ accessory.type = "stairs"
        /\ ~includes(accessory.stairType, CornerKeyword(panel))
        /\ \/ updateAccessory(accessory.id, [quantity |-> Max(1, accessory.quantity - 1)])
           \/ /\ accessory.quantity < MaxQuantity
              /\ updateAccessory(accessory.id, [quantity |-> accessory.quantity + 1])

RailingLengthInput ==
    \E i \in 1..Len(config.accessories) :
        /\ config.accessories[i].type = "railings"
        /\ \E x \in RailingLengthInputs :
            updateAccessory(config.accessories[i].id, [length |-> x])

RailingQuantityButtons ==
    \E i \in 1..Len(config.accessories) :
        LET accessory == config.accessories[i] IN
        /\ accessory.type = "railings"
        /\ \/ updateAccessory(accessory.id, [quantity |-> Max(1, accessory.quantity - 1)])
           \/ /\ accessory.quantity < MaxQuantity
              /\ updateAccessory(accessory.id, [quantity |-> accessory.quantity + 1])

GateWidthSelect ==
    \E i \in 1..Len(config.accessories) :
        /\ config.accessories[i].type = "palletGate"
        /\ \E w \in GateWidthInputs :
            /\ w # config.accessories[i].width
            /\ updateAccessory(config.accessories[i].id, [width |-> w])

GateQuantityButtons ==
    \E i \in 1..Len(config.accessories) :
        LET accessory == config.accessories[i] IN
        /\ accessory.type = "palletGate"
        /\ \/ updateAccessory(accessory.id, [quantity |-> Max(1, accessory.quantity - 1)])
           \/ /\ accessory.quantity < MaxQuantity
              /\ updateAccessory(accessory.id, [quantity |-> accessory.quantity + 1])

Init ==
    /\ panel \in Panels
    /\ config = DEFAULT_CONFIG
    /\ now = 1
    /\ lastOp = [name |-> "init", id |-> NoId, updates |-> NoUpdates]
    /\ called = FALSE
    /\ alerted = NoAlert
    /\ result = NoResult
    /\ walk = NoWalk
    /\ storage = NoStorage
    /\ form = NoForm

Next ==
    \/ AddButton
    \/ RemoveButton
    \/ StairTypeSelect
    \/ StairQuantityButtons
    \/ RailingLengthInput
    \/ RailingQuantityButtons
    \/ GateWidthSelect
    \/ GateQuantityButtons

Spec == Init /\ [][Next]_vars

----------------------------------------------------------------------------
(* The helper functions called directly, on configurations drawn from a pool *)

FnDimensions == {<<2000, 2000>>, <<9400, 4000>>}

Stair(v, q) ==
    [id |-> NoId, type |-> "stairs", quantity |-> q, stairType |-> v,
     length |-> 0, width |-> Undefined]

Gate(w, q) ==
    [id |-> NoId, type |-> "palletGate", quantity |-> q, stairType |-> Undefined,
     length |-> 0, width |-> w]

Railing(q, l) ==
    [id |-> NoId, type |-> "railings", quantity |-> q, stairType |-> Undefined,
     length |-> l, width |-> Undefined]

FnPool(p) ==
    { Stair("Straight 1m", 1), Stair("Straight 2m", 3),
      Stair(IF p = CP THEN "Vinkel 1.2m" ELSE "Corner stairs 1.2m", 1),
      Gate("2500mm", 1), Gate("3000mm", 2),
      Railing(1, 10), Railing(1, 15), Railing(1, 400),
      Railing(3, 15), Railing(5, 10), Railing(2, 100),
      Railing(3, 5) }      \* 0.5 m: the length field accepts any number

\* ids as distinct as addAccessory makes them when the clock advances
WithIds(s) == [i \in 1..Len(s) |-> [s[i] EXCEPT !.id = <<s[i].type, i>>]]

\* ids when Date.now() returns the same millisecond for every addAccessory:
\* entries of one type then share `${type}-${Date.now()}`
WithSameStamp(s) == [i \in 1..Len(s) |-> [s[i] EXCEPT !.id = <<s[i].type, 1>>]]

FnAccessoryLists(p) ==
    LET lists == UNION { [1..n -> FnPool(p)] : n \in 0..MaxFnAccessories }
    IN  { WithIds(s) : s \in lists } \cup { WithSameStamp(s) : s \in lists }

FnInit ==
    /\ panel \in Panels
    /\ \E d \in FnDimensions : \E accs \in FnAccessoryLists(panel) :
           config = [length |-> d[1], width |-> d[2], accessories |-> accs]
    /\ now = 1
    /\ lastOp = [name |-> "init", id |-> NoId, updates |-> NoUpdates]
    /\ called = FALSE
    /\ alerted = NoAlert
    /\ result = NoResult
    /\ walk = NoWalk
    /\ storage = NoStorage
    /\ form = NoForm

CallCalculateAvailablePerimeter ==
    /\ lastOp.name = "init"
    /\ result' = [result EXCEPT !.available = AvailablePerimeterIn(panel, config)]
    /\ lastOp' = [lastOp EXCEPT !.name = "calculateAvailablePerimeter"]
    /\ UNCHANGED <<panel, config, now, called, alerted, walk, storage, form>>

CallAutoAdjust ==
    /\ lastOp.name = "calculateAvailablePerimeter"
    /\ result' = [result EXCEPT !.accessories = autoAdjustRailingsForPerimeter(panel, config)]
    /\ lastOp' = [lastOp EXCEPT !.name = "autoAdjustRailingsForPerimeter"]
    /\ UNCHANGED <<panel, config, now, called, alerted, walk, storage, form>>

\* auto-fit applied to its own output; the first output is kept in result.first
CallAutoAdjustAgain ==
    /\ lastOp.name = "autoAdjustRailingsForPerimeter"
    /\ result' = [result EXCEPT
                     !.first = result.accessories,
                     !.accessories =
                         autoAdjustRailingsForPerimeter(
                             panel, [config EXCEPT !.accessories = result.accessories])]
    /\ lastOp' = [lastOp EXCEPT !.name = "autoAdjustRailingsForPerimeter again"]
    /\ UNCHANGED <<panel, config, now, called, alerted, walk, storage, form>>

FnNext ==
    \/ CallCalculateAvailablePerimeter
    \/ CallAutoAdjust
    \/ CallAutoAdjustAgain

SpecFn == FnInit /\ [][FnNext]_vars

----------------------------------------------------------------------------
(* Vocabulary of the properties, stated without the program's helpers *)

CornerVariants == {"Vinkel 1m", "Vinkel 1.2m", "Corner stairs 1m", "Corner stairs 1.2m"}

IsCornerStairEntry(a) == a.type = "stairs" /\ a.stairType \in CornerVariants

CornerStairEntries(accs) == {i \in 1..Len(accs) : IsCornerStairEntry(accs[i])}

RailingEntries(accs) == {i \in 1..Len(accs) : accs[i].type = "railings"}

RECURSIVE SumOver(_, _)
SumOver(S, f) ==
    IF S = {} THEN 0
    ELSE LET x == CHOOSE y \in S : TRUE IN f[x] + SumOver(S \ {x}, f)

\* sum over all railing entries of quantity x length
TotalRailing(accs) ==
    SumOver(RailingEntries(accs), [i \in RailingEntries(accs) |-> accs[i].quantity * accs[i].length])

Successful == called /\ lastOp.name \in {"addAccessory", "updateAccessory", "removeAccessory"}

----------------------------------------------------------------------------
(* C1 *)

\* C1: after every successful accessory operation the total railing length
\* (sum of quantity x length) is at most the available perimeter of the
\* resulting configuration.
C1_RailingsFitAfterMutation ==
    Successful => TotalRailing(config.accessories) <= AvailablePerimeterIn(panel, config)

----------------------------------------------------------------------------
(* C2 *)

ValidRailings(accs) ==
    \A i \in RailingEntries(accs) : accs[i].quantity >= 1 /\ accs[i].length >= 1 * DM

\* C2: for a configuration whose railings all have quantity >= 1 and length
\* >= 1 m, the list returned by autoAdjustRailingsForPerimeter has total
\* railing length at most the configuration's available perimeter.
C2_AutoFitFits ==
    (lastOp.name = "autoAdjustRailingsForPerimeter" /\ ValidRailings(config.accessories))
        => TotalRailing(result.accessories) <= AvailablePerimeterIn(panel, config)

----------------------------------------------------------------------------
(* C3, C4 *)

\* C3: in every reachable state the accessory list holds at most one corner
\* stair entry.
C3_AtMostOneCornerStair == Cardinality(CornerStairEntries(config.accessories)) <= 1

\* C4: in every reachable state every corner stair entry has quantity 1.
C4_CornerStairQuantityOne ==
    \A i \in CornerStairEntries(config.accessories) : config.accessories[i].quantity = 1

----------------------------------------------------------------------------
(* C5 *)

C5_Target(accs, id) == accs[CHOOSE i \in 1..Len(accs) : accs[i].id = id]

\* other railings + new quantity x new length, for an edit of the railing `id`
C5_Requested(accs, id, updates) ==
    LET others == {i \in RailingEntries(accs) : accs[i].id # id}
        q == IF "quantity" \in DOMAIN updates THEN updates.quantity
             ELSE C5_Target(accs, id).quantity
        l == IF "length" \in DOMAIN updates THEN updates.length
             ELSE C5_Target(accs, id).length
    IN  SumOver(others, [i \in others |-> accs[i].quantity * accs[i].length]) + q * l

----------------------------------------------------------------------------
(* C6, C7 *)

StairEntries(accs) == {i \in 1..Len(accs) : accs[i].type = "stairs"}
GateEntries(accs) == {i \in 1..Len(accs) : accs[i].type = "palletGate"}

GateWidthDm(w) == CASE w = "2000mm" -> 20 [] w = "2500mm" -> 25 [] w = "3000mm" -> 30

\* 2 (l + w) in decimetres
BasePerimeter(cfg) == (2 * (cfg.length + cfg.width)) \div 100

\* 1.0 m per stair unit
StairUnitsOccupancy(accs) ==
    SumOver(StairEntries(accs), [i \in StairEntries(accs) |-> accs[i].quantity * 10])

\* opening width per gate unit
GateOccupancy(accs) ==
    SumOver(GateEntries(accs),
            [i \in GateEntries(accs) |-> accs[i].quantity * GateWidthDm(accs[i].width)])

Computed == lastOp.name # "init"

NoCorner == CornerStairEntries(config.accessories) = {}
OneCorner == Cardinality(CornerStairEntries(config.accessories)) = 1

C6_Expected ==
    Max(0, BasePerimeter(config) - StairUnitsOccupancy(config.accessories)
             - GateOccupancy(config.accessories))

----------------------------------------------------------------------------
(* C8, C9, C10 *)

\* C8: auto-fit is idempotent: applied to its own output it returns that
\* output (same entries, order, quantities and lengths).
C8_AutoFitIdempotent ==
    lastOp.name = "autoAdjustRailingsForPerimeter again" => result.accessories = result.first

\* C9: when every input railing has quantity >= 1 and length >= 1 m, every
\* railing in the output of autoAdjustRailingsForPerimeter has quantity >= 1
\* and length >= 1 m.
C9_AutoFitKeepsFloors ==
    (lastOp.name = "autoAdjustRailingsForPerimeter" /\ ValidRailings(config.accessories))
        => ValidRailings(result.accessories)

\* the reduce-quantity branch ran: an output railing has a lower quantity
C9_Witness ==
    /\ lastOp.name = "autoAdjustRailingsForPerimeter"
    /\ ValidRailings(config.accessories)
    /\ \E i \in 1..Len(result.accessories) : \E j \in 1..Len(config.accessories) :
           /\ result.accessories[i].id = config.accessories[j].id
           /\ result.accessories[i].quantity < config.accessories[j].quantity

\* C10: when the total railing length is at most the available perimeter,
\* autoAdjustRailingsForPerimeter returns the accessory list unchanged.
C10_AutoFitNoOpWhenFits ==
    ( /\ lastOp.name = "autoAdjustRailingsForPerimeter"
      /\ TotalRailing(config.accessories) <= AvailablePerimeterIn(panel, config) )
        => result.accessories = config.accessories

C10_Witness ==
    /\ lastOp.name = "autoAdjustRailingsForPerimeter"
    /\ RailingEntries(config.accessories) # {}
    /\ TotalRailing(config.accessories) <= AvailablePerimeterIn(panel, config)
    /\ 2 * TotalRailing(config.accessories) > AvailablePerimeterIn(panel, config)

----------------------------------------------------------------------------
(* C11 *)

\* s without the entries at the positions in S, order kept
WithoutPositions(s, S) ==
    LET keep == (1..Len(s)) \ S
    IN  [i \in 1..Cardinality(keep) |->
            s[CHOOSE j \in keep : Cardinality({m \in keep : m <= j}) = i]]

\* the k last railing positions of accs
LastRailings(accs, k) ==
    {r \in RailingEntries(accs) : Cardinality({q \in RailingEntries(accs) : q > r}) < k}

RailingFullLength(a) == a.quantity * a.length

\* the excess still to absorb when the walk reaches position r, the railings
\* in removed behind it having been taken out
ExcessWhenReached(accs, removed, excess, r) ==
    excess - SumOver({q \in removed : q > r},
                     [q \in {x \in removed : x > r} |-> RailingFullLength(accs[q])])

\* out is accs after a backward walk that took out its k last railings
BackwardWalk(accs, out, excess, k) ==
    LET removed == LastRailings(accs, k)
        kept == WithoutPositions(accs, removed)
        changed == {i \in 1..Len(kept) : i <= Len(out) /\ out[i] # kept[i]}
    IN  /\ Len(out) = Len(kept)
        /\ \A r \in removed :
               RailingFullLength(accs[r]) <= ExcessWhenReached(accs, removed, excess, r)
        /\ Cardinality(changed) <= 1
        /\ \A i \in changed :
               /\ kept[i].type = "railings"
               /\ \A j \in RailingEntries(kept) : j <= i
               /\ out[i] = [kept[i] EXCEPT !.quantity = out[i].quantity,
                                           !.length = out[i].length]

AutoFitReduced ==
    /\ lastOp.name = "autoAdjustRailingsForPerimeter"
    /\ TotalRailing(config.accessories) > result.available

\* C11: when the railings exceed the available perimeter, the list returned
\* by autoAdjustRailingsForPerimeter is the input with some number of its last
\* railing entries removed, each no longer than the excess left when the
\* backward walk reached it, at most one entry changed (the last railing
\* that stays), and every entry before it unchanged and in place.
C11_AutoFitWalksBackward ==
    AutoFitReduced =>
        \E k \in 0..Cardinality(RailingEntries(config.accessories)) :
            BackwardWalk(config.accessories, result.accessories,
                         TotalRailing(config.accessories) - result.available, k)

----------------------------------------------------------------------------
(* C12 *)

\* the platform of the example: 9400 x 4000 with one railing entry of 1 x 40 m
C12_Example ==
    /\ config.length = 9400 /\ config.width = 4000
    /\ Len(config.accessories) = 1
    /\ config.accessories[1].type = "railings"
    /\ config.accessories[1].quantity = 1
    /\ config.accessories[1].length = 400

\* exactly one railing entry, of quantity 1, longer than an available
\* perimeter of at least 1 m
C12_SingleRailingExceeds ==
    /\ Cardinality(RailingEntries(config.accessories)) = 1
    /\ \A i \in RailingEntries(config.accessories) :
           /\ config.accessories[i].quantity = 1
           /\ config.accessories[i].length > result.available
    /\ result.available >= 1 * DM

\* the input with its railing entry set to 1 x floor(A)
C12_ReducedToFloor ==
    result.accessories =
        [i \in 1..Len(config.accessories) |->
            IF config.accessories[i].type = "railings"
            THEN [config.accessories[i] EXCEPT !.length = DM * (result.available \div DM)]
            ELSE config.accessories[i]]

----------------------------------------------------------------------------
(* The perimeter walk of the viewer: Railings in src/unnamed/part_000.     *)
(* One Railings component is rendered per railing entry. Distances are in  *)
(* CENTIMETRES (1 m = 100): the walk skips by 0.01 m and 0.05 m.           *)

CM == 100               \* centimetres per metre
MmPerCm == 10
CmPerDm == 10
stairWidth == 1 * CM    \* "1 meter wide"
reposLength == 3 * CM
reposDepth == 140
maxIterations == 1000
\* chunks of up to 4 m
maxSegment_FourMetres == 4 * CM
maxSegment == 3 * CM    \* "Max 3m segments"
gapSkip == 1            \* 0.01 m
minSegment == 5         \* 0.05 m

Min(a, b) == IF a <= b THEN a ELSE b

RECURSIVE SumTo(_, _)
\* f[1] + ... + f[n]
SumTo(f, n) == IF n <= 0 THEN 0 ELSE f[n] + SumTo(f, n - 1)

RECURSIVE Repeat(_, _)
Repeat(x, n) == IF n <= 0 THEN <<>> ELSE <<x>> \o Repeat(x, n - 1)

\* MezzanineModel: stairs.reduce((sum, stair) => sum + stair.quantity, 0)
totalStairsQuantity(accessories) ==
    LET stairs == SelectSeq(accessories, isStairs)
    IN  SumTo([i \in 1..Len(stairs) |-> stairs[i].quantity], Len(stairs))

RECURSIVE GateWidthsOf(_)
GateWidthsOf(palletGates) ==
    IF palletGates = <<>> THEN <<>>
    ELSE Repeat(parseFloat(Head(palletGates).width) \div MmPerCm, Head(palletGates).quantity)
             \o GateWidthsOf(Tail(palletGates))

\* MezzanineModel: one width per gate unit, in list order
palletGatesWidths(accessories) == GateWidthsOf(SelectSeq(accessories, isPalletGate))

\* MezzanineModel: hasRepos={!!vinkelStair}
hasRepos(accessories) == hasVinkelStair(accessories)

\* ranges <<minX, maxX>> of the stairs on the front edge, centred on x = 0
getStairsXRanges(quantity) ==
    [q \in 1..quantity |->
        LET offsetX == (2 * (q - 1) - (quantity - 1)) * CM
        IN  <<offsetX - stairWidth \div 2, offsetX + stairWidth \div 2>>]

\* ranges <<minX, maxX>> of the pallet gates, spaced and centred as a group
getPalletGatesXRanges(widths) ==
    LET n == Len(widths)
        spacing == [i \in 1..n |->
                       IF i > 1 THEN Max(Max(widths[i - 1], widths[i]) + 1 * CM, 2 * CM)
                       ELSE 0]
        totalSpan == SumTo(widths, n) + SumTo(spacing, n)
        centre == [i \in 1..n |->
                      (0 - totalSpan) \div 2 + SumTo(widths, i - 1) + SumTo(spacing, i)
                          + widths[i] \div 2]
    IN  [i \in 1..n |-> <<centre[i] - widths[i] \div 2, centre[i] + widths[i] \div 2>>]

\* total perimeter the walk caps at and wraps at
WalkPerimeter(cfg) ==
    LET length == cfg.length \div MmPerCm
        width == cfg.width \div MmPerCm
        perimeter == 2 * (length + width)
    IN  IF hasRepos(cfg.accessories) THEN perimeter + reposDepth + reposLength ELSE perimeter

Segment(edge, edgeLength, edgeStartDist, startX, endX) ==
    [edge |-> edge, edgeLength |-> edgeLength, edgeStartDist |-> edgeStartDist,
     startX |-> startX, endX |-> endX]

\* the ordered edge list, each edge with the distance at which it starts
perimeterSegments(cfg) ==
    LET length == cfg.length \div MmPerCm
        width == cfg.width \div MmPerCm
        left == 0 - length \div 2
        right == length \div 2
        frontStartX == left + reposLength
        frontLength == right - frontStartX
        head == IF hasRepos(cfg.accessories)
                THEN << Segment("repos-left", reposDepth, 0, left, left),
                        Segment("repos-front", reposLength, reposDepth, left, left + reposLength),
                        Segment("front", frontLength, reposDepth + reposLength, frontStartX, right) >>
                ELSE << Segment("front", length, 0, left, right) >>
        d1 == IF hasRepos(cfg.accessories)
              THEN reposDepth + reposLength + frontLength ELSE length
    IN  head \o << Segment("right", width, d1, right, right),
                   Segment("back", length, d1 + width, right, left),
                   Segment("left", width, d1 + width + length, left, left) >>

\* perimeterSegments.findIndex(...): the first edge the cursor is on, 0 when none
edgeIndex(segs, perimeter, currentDistance) ==
    LET nextEdgeStart(idx) == IF idx < Len(segs) THEN segs[idx + 1].edgeStartDist ELSE perimeter
        on(idx) == currentDistance >= segs[idx].edgeStartDist
                       /\ currentDistance < nextEdgeStart(idx)
    IN  IF \E idx \in 1..Len(segs) : on(idx)
        THEN CHOOSE idx \in 1..Len(segs) : on(idx) /\ \A j \in 1..(idx - 1) : ~on(j)
        ELSE 0

\* for (const [minX, maxX] of ranges) if (x >= minX && x <= maxX) ... break;
firstRangeHolding(ranges, x) ==
    LET in(i) == x >= ranges[i][1] /\ x <= ranges[i][2]
    IN  IF \E i \in 1..Len(ranges) : in(i)
        THEN CHOOSE i \in 1..Len(ranges) : in(i) /\ \A j \in 1..(i - 1) : ~in(j)
        ELSE 0

\* for (const [minX] of ranges) if (endXPos > minX && startXPos < minX) ... break;
firstRangeCrossed(ranges, startXPos, endXPos) ==
    LET crossed(i) == endXPos > ranges[i][1] /\ startXPos < ranges[i][1]
    IN  IF \E i \in 1..Len(ranges) : crossed(i)
        THEN CHOOSE i \in 1..Len(ranges) : crossed(i) /\ \A j \in 1..(i - 1) : ~crossed(j)
        ELSE 0

\* currentDistance += amount; if (currentDistance >= perimeter) currentDistance = 0;
Advance(w, amount) ==
    LET d == w.currentDistance + amount
    IN  [w EXCEPT !.currentDistance = IF d >= w.perimeter THEN 0 ELSE d]

\* one pass through the body of the while loop
LoopBody(cfg, w) ==
    LET segs == perimeterSegments(cfg)
        ranges == getStairsXRanges(totalStairsQuantity(cfg.accessories))
                      \o getPalletGatesXRanges(palletGatesWidths(cfg.accessories))
        edgeIdx == edgeIndex(segs, w.perimeter, w.currentDistance)
        edge == segs[edgeIdx]
        distanceAlongEdge == w.currentDistance - edge.edgeStartDist
        remainingOnEdge == edge.edgeLength - distanceAlongEdge
        XAt(d) == edge.startX + ((edge.endX - edge.startX) * d) \div edge.edgeLength
        currentXPos == XAt(distanceAlongEdge)
        gap == IF edge.edge = "front" THEN firstRangeHolding(ranges, currentXPos) ELSE 0
        skipToDistance ==
            ((ranges[gap][2] - edge.startX) * edge.edgeLength) \div (edge.endX - edge.startX)
        segmentLen0 == Min(Min(w.remainingLength, remainingOnEdge), maxSegment)
        crossed == IF edge.edge = "front"
                   THEN firstRangeCrossed(ranges, currentXPos, XAt(distanceAlongEdge + segmentLen0))
                   ELSE 0
        truncateDistance ==
            ((ranges[crossed][1] - edge.startX) * edge.edgeLength) \div (edge.endX - edge.startX)
        segmentLen == IF crossed # 0
                      THEN Max(minSegment, truncateDistance - distanceAlongEdge)
                      ELSE segmentLen0
        placement == [entry |-> w.entry, edge |-> edge.edge,
                      from |-> distanceAlongEdge, to |-> distanceAlongEdge + segmentLen,
                      startX |-> edge.startX, iteration |-> w.iterationCount]
    IN  IF edgeIdx = 0 THEN [w EXCEPT !.status = "returned"]            \* break
        ELSE IF edge.edge = "repos-front" /\ hasRepos(cfg.accessories)
        THEN Advance(w, remainingOnEdge)
        ELSE IF gap # 0
        THEN Advance(w, Max(gapSkip, skipToDistance - distanceAlongEdge))
        ELSE IF segmentLen < minSegment
        THEN Advance(w, minSegment)
        ELSE Advance([w EXCEPT !.placements = @ \cup {placement},
                               !.remainingLength = @ - segmentLen],
                     segmentLen)

\* <Railings .../> for the railing entry at position idx of the railings
RailingsStart(cfg, idx, placements) ==
    LET railing == SelectSeq(cfg.accessories, isRailings)[idx]
        segmentLength == IF railing.length # 0 THEN railing.length * CmPerDm ELSE 10 * CM
        totalRailingLength == railing.quantity * segmentLength
        perimeter == WalkPerimeter(cfg)
    IN  [status |-> IF totalRailingLength <= 0 THEN "returned" ELSE "walking",
         entry |-> idx, perimeter |-> perimeter, currentDistance |-> 0,
         remainingLength |-> IF totalRailingLength <= 0 THEN 0
                             ELSE Min(totalRailingLength, perimeter),
         iterationCount |-> 0, placements |-> placements]

\* MezzanineModel renders the next railing entry
RenderRailings ==
    /\ walk.status \in {"idle", "returned"}
    /\ walk.entry < Len(SelectSeq(config.accessories, isRailings))
    /\ walk' = RailingsStart(config, walk.entry + 1, walk.placements)
    /\ lastOp' = [lastOp EXCEPT !.name = "Railings"]
    /\ UNCHANGED <<panel, config, now, called, alerted, result, storage, form>>

\* the while loop: its condition, then one pass through its body
Iterate ==
    /\ walk.status = "walking"
    /\ walk' = IF walk.remainingLength > 1 /\ walk.iterationCount < maxIterations
               THEN LoopBody(config, [walk EXCEPT !.iterationCount = @ + 1])
               ELSE [walk EXCEPT !.status = "returned"]
    /\ UNCHANGED <<panel, config, now, lastOp, called, alerted, result, storage, form>>

----------------------------------------------------------------------------
(* The viewer rendering configurations drawn from a pool *)

MaxWalkAccessories == 3     \* longest accessory list rendered

WalkDimensions == {<<9000, 4000>>, <<5000, 3000>>}

WalkPool(p) ==
    { Stair("Straight 1m", 1),
      Stair(IF p = CP THEN "Vinkel 1.2m" ELSE "Corner stairs 1.2m", 1),
      Gate("2000mm", 1), Gate("2000mm", 2),
      Railing(1, 54), Railing(2, 30),
      Railing(1, 260) }      \* the whole perimeter of the larger platform

WalkAccessoryLists(p) ==
    { WithIds(s) : s \in UNION { [1..n -> WalkPool(p)] : n \in 0..MaxWalkAccessories } }

WalkInit ==
    /\ panel \in Panels
    /\ \E d \in WalkDimensions : \E accs \in WalkAccessoryLists(panel) :
           config = [length |-> d[1], width |-> d[2], accessories |-> accs]
    /\ now = 1
    /\ lastOp = [name |-> "init", id |-> NoId, updates |-> NoUpdates]
    /\ called = FALSE
    /\ alerted = NoAlert
    /\ result = NoResult
    /\ walk = NoWalk
    /\ storage = NoStorage
    /\ form = NoForm

WalkNext ==
    \/ RenderRailings
    \/ Iterate

SpecWalk == WalkInit /\ [][WalkNext]_vars

----------------------------------------------------------------------------
(* C13 *)

\* the occupied X ranges of the stairs and of the pallet gates on the front edge
OccupiedRanges(cfg) ==
    LET stairsXRanges == getStairsXRanges(totalStairsQuantity(cfg.accessories))
        palletGatesXRanges == getPalletGatesXRanges(palletGatesWidths(cfg.accessories))
    IN  {stairsXRanges[i] : i \in 1..Len(stairsXRanges)}
            \cup {palletGatesXRanges[i] : i \in 1..Len(palletGatesXRanges)}

\* the placement covers a stretch of positive length inside the range
OverlapsInX(pl, range) ==
    pl.startX + pl.from < range[2] /\ pl.startX + pl.to > range[1]

\* C13: no railing placement emitted on the front edge overlaps in X an
\* occupied range of a stair or of a pallet gate.
C13_NoPlacementInOccupiedRange ==
    \A pl \in walk.placements :
        pl.edge = "front" => \A range \in OccupiedRanges(config) : ~OverlapsInX(pl, range)

----------------------------------------------------------------------------
(* C14 *)

\* every railing entry of the configuration has been rendered
AllRendered ==
    /\ walk.status = "returned"
    /\ walk.entry >= 1
    /\ walk.entry = Cardinality(RailingEntries(config.accessories))

PlacedLength(placements) ==
    SumOver(placements, [pl \in placements |-> pl.to - pl.from])

\* two placements cover a common stretch of positive length of one edge
CoverSameStretch(a, b) ==
    a.edge = b.edge /\ a.from < b.to /\ b.from < a.to

\* the length asked for: the sum over all railing entries, capped at the perimeter
C14_Requested == Min(CmPerDm * TotalRailing(config.accessories), walk.perimeter)

\* C14: the railings of the whole configuration are laid along one
\* continuous cursor: the length placed is the sum over all railing entries
\* capped at the total perimeter (up to the 0.01 m at which a walk stops),
\* and no two placements (of the same or of different entries) cover the
\* same stretch of the same edge.
C14_OneContinuousCursor ==
    AllRendered =>
        /\ PlacedLength(walk.placements) <= C14_Requested + walk.entry
        /\ PlacedLength(walk.placements) >= C14_Requested - walk.entry
        /\ \A a, b \in walk.placements : a # b => ~CoverSameStretch(a, b)

----------------------------------------------------------------------------
(* C15 *)

\* the invariants of the configuration: railings fit, at most one corner stair
C15_ValidConfiguration ==
    /\ TotalRailing(config.accessories) <= AvailablePerimeterIn(panel, config)
    /\ Cardinality(CornerStairEntries(config.accessories)) <= 1

\* C15: for a configuration that satisfies the invariants, the walk of every
\* railing entry ends because the requested length is exhausted (remaining
\* <= 0.01 m), never because the 1000-iteration cap is reached.
C15_WalkExhaustsRequestedLength ==
    (C15_ValidConfiguration /\ walk.status = "returned" /\ walk.entry >= 1)
        => walk.remainingLength <= 1

----------------------------------------------------------------------------
(* C17 *)

\* C17: the perimeter at which the walk caps the requested length and wraps
\* its cursor equals the occupancy calculator's perimeter: 2(l+w) without a
\* corner stair, 2(l+w) + 5.8 m with one.
C17_WalkPerimeterIsCalculatorPerimeter ==
    walk.entry >= 1 =>
        /\ walk.perimeter =
               CmPerDm * (IF panel = CP
                          THEN calculatePerimeter(config.length, config.width, config.accessories)
                          ELSE calculatePerimeterSP(config.length, config.width, config.accessories))
        /\ walk.perimeter =
               CmPerDm * (BasePerimeter(config)
                            + IF CornerStairEntries(config.accessories) # {} THEN 58 ELSE 0)

----------------------------------------------------------------------------
(* C16 *)

\* C16: whenever a successful add or update of a stair or pallet gate makes
\* auto-fit shrink or remove railings, the operation reports the reduction,
\* and the amount reported is the total railing length before auto-fit
\* minus the total railing length after it.
C16_ReductionReported ==
    [][ ( /\ lastOp'.name \in {"addAccessory", "updateAccessory"}
          /\ lastOp'.id[1] \in {"stairs", "palletGate"}
          /\ called'
          /\ TotalRailing(config'.accessories) # TotalRailing(config.accessories) )
        => alerted' = <<"reduced", TotalRailing(config.accessories)
                                      - TotalRailing(config'.accessories)>> ]_vars

----------------------------------------------------------------------------
(* Pricing.  Money is counted in hundredths of a currency unit, areas in
   hundredths of a square metre, volumes in thousandths of a cubic metre and
   multipliers in tenths; a quotient is kept as an exact fraction <<n, d>>
   in lowest terms. *)

Cent == 100
MaxPriceAccessories == 2

BASE_PRICE == 50000 * Cent
PRICE_PER_SQUARE_METER_BASE == 2000 * Cent
\* 0.001, kept as its reciprocal
DIMENSION_MULTIPLIER == 1000

\* 1.0, 1.2 and 1.5 in tenths
LOAD_MULTIPLIERS == [lc \in {250, 350, 500} |-> CASE lc = 250 -> 10
                                                  [] lc = 350 -> 12
                                                  [] lc = 500 -> 15]

STAIRS_BASE_PRICE == 15000 * Cent
CORNER_STAIRS_BASE_PRICE == 25000 * Cent
\* per metre; railing lengths are in tenths of a metre
RAILING_PRICE_PER_METER == 800 * Cent
PALLET_GATE_BASE_PRICE == 12000 * Cent

\* REPOS_LENGTH * REPOS_DEPTH in hundredths of a square metre
REPOS_AREA == REPOS_LENGTH * REPOS_DEPTH

LEASING_3_YEARS_FACTOR == 29
\* a five-year factor of 5%
LEASING_5_YEARS_FACTOR_FivePercent == 5 * 10
LEASING_5_YEARS_FACTOR == 35

RECURSIVE GCD(_, _)
GCD(a, b) == IF b = 0 THEN a ELSE GCD(b, a % b)

\* the quotient n / d of two non-negative numbers, d > 0
Quotient(n, d) == LET g == GCD(n, d) IN <<n \div g, d \div g>>

Zero == <<0, 1>>

calculateSquareMeters(length, width, accessories) ==
    LET baseArea == (length \div 100) * (width \div 100)
        hasCornerStairPriced ==
            \E i \in 1..Len(accessories) :
                /\ accessories[i].type = "stairs"
                /\ includes(accessories[i].stairType, "Corner stairs")
    IN  IF hasCornerStairPriced THEN baseArea + REPOS_AREA ELSE baseArea

calculateDimensionPrice(length, width, height) ==
    LET volume == (length \div 100) * (width \div 100) * (height \div 100)
        \* volume is in 0.001 m3, so one unit of it costs
        \* PRICE_PER_SQUARE_METER_BASE * DIMENSION_MULTIPLIER * 100 / 1000
        perUnit == (PRICE_PER_SQUARE_METER_BASE * 100) \div (DIMENSION_MULTIPLIER * 1000)
    IN  volume * perUnit

\* the lookup with the 500 class missing from the table
getLoadMultiplier_No500(loadCapacity) ==
    IF loadCapacity \in DOMAIN LOAD_MULTIPLIERS \ {500}
    THEN LOAD_MULTIPLIERS[loadCapacity]
    ELSE 10

getLoadMultiplier(loadCapacity) ==
    IF loadCapacity \in DOMAIN LOAD_MULTIPLIERS
    THEN LOAD_MULTIPLIERS[loadCapacity]
    ELSE 10

AccessoryPrice(accessory) ==
    CASE accessory.type = "stairs" ->
           LET isCornerStair == includes(accessory.stairType, "Corner stairs")
               stairPrice == IF isCornerStair THEN CORNER_STAIRS_BASE_PRICE
                                              ELSE STAIRS_BASE_PRICE
           IN  stairPrice * accessory.quantity
      [] accessory.type = "railings" ->
           IF accessory.length # 0
           THEN (RAILING_PRICE_PER_METER * accessory.length * accessory.quantity) \div DM
           ELSE 0
      [] accessory.type = "palletGate" ->
           PALLET_GATE_BASE_PRICE * accessory.quantity
      [] OTHER -> 0

RECURSIVE calculateAccessoriesPrice(_)
calculateAccessoriesPrice(accessories) ==
    IF accessories = << >> THEN 0
    ELSE AccessoryPrice(Head(accessories)) + calculateAccessoriesPrice(Tail(accessories))

calculatePricing(cfg) ==
    LET squareMeters == calculateSquareMeters(cfg.length, cfg.width, cfg.accessories)
        basePrice == BASE_PRICE
        dimensionPrice == calculateDimensionPrice(cfg.length, cfg.width, cfg.height)
        loadMultiplier == getLoadMultiplier(cfg.loadCapacity)
        loadPrice == ((basePrice + dimensionPrice) * (loadMultiplier - 10)) \div 10
        accessoriesPrice == calculateAccessoriesPrice(cfg.accessories)
        totalPrice == ((basePrice + dimensionPrice) * loadMultiplier) \div 10 + accessoriesPrice
    IN  [basePrice |-> basePrice,
         dimensionPrice |-> dimensionPrice,
         loadPrice |-> loadPrice,
         accessoriesPrice |-> accessoriesPrice,
         totalPrice |-> totalPrice,
         pricePerSquareMeter |-> IF squareMeters > 0
                                 THEN Quotient(totalPrice, squareMeters)
                                 ELSE Zero,
         squareMeters |-> squareMeters,
         leasing3Years |-> Quotient(totalPrice * LEASING_3_YEARS_FACTOR, 1000 * 36),
         leasing5Years |-> Quotient(totalPrice * LEASING_5_YEARS_FACTOR, 1000 * 60)]

----------------------------------------------------------------------------
(* The price shown for a configuration, recomputed whenever it changes *)

LoadCapacities == {250, 350, 500}

\* length, width, height as the sliders give them
PriceDimensions == {<<10000, 5000, 3000>>, <<9400, 4000, 2500>>}

PricePool(p) ==
    { Stair("Straight 1m", 1), Stair("Straight 2m", 3),
      Stair(IF p = CP THEN "Vinkel 1.2m" ELSE "Corner stairs 1.2m", 1),
      Gate("2500mm", 1), Gate("3000mm", 2),
      Railing(1, 10), Railing(2, 100) }

PriceAccessoryLists(p) ==
    { WithIds(s) : s \in UNION { [1..n -> PricePool(p)] : n \in 0..MaxPriceAccessories } }

\* result.totals remembers the total shown for each load class so far
Priced(cfg, totals) ==
    LET pricing == calculatePricing(cfg)
    IN  [pricing |-> pricing,
         totals |-> [lc \in DOMAIN totals \cup {cfg.loadCapacity} |->
                        IF lc = cfg.loadCapacity THEN pricing.totalPrice ELSE totals[lc]]]

PriceInit ==
    /\ panel \in Panels
    /\ \E d \in PriceDimensions : \E lc \in LoadCapacities :
       \E accs \in PriceAccessoryLists(panel) :
           config = [length |-> d[1], width |-> d[2], height |-> d[3],
                     loadCapacity |-> lc, accessories |-> accs]
    /\ now = 1
    /\ lastOp = [name |-> "init", id |-> NoId, updates |-> NoUpdates]
    /\ called = FALSE
    /\ alerted = NoAlert
    /\ result = [pricing |-> Undefined, totals |-> << >>]
    /\ walk = NoWalk
    /\ storage = NoStorage
    /\ form = NoForm

\* the first render: useMemo(() => calculatePricing(config), [config])
RenderPricing ==
    /\ lastOp.name = "init"
    /\ result' = Priced(config, result.totals)
    /\ lastOp' = [lastOp EXCEPT !.name = "calculatePricing"]
    /\ UNCHANGED <<panel, config, now, called, alerted, walk, storage, form>>

\* a load button, and the re-render that prices the new configuration
handleLoadChange(load) ==
    /\ lastOp.name # "init"
    /\ load # config.loadCapacity
    /\ config' = [config EXCEPT !.loadCapacity = load]
    /\ result' = Priced(config', result.totals)
    /\ lastOp' = [lastOp EXCEPT !.name = "handleLoadChange"]
    /\ UNCHANGED <<panel, now, called, alerted, walk, storage, form>>

LoadButton == \E load \in LoadCapacities : handleLoadChange(load)

PriceNext ==
    \/ RenderPricing
    \/ LoadButton

SpecPrice == PriceInit /\ [][PriceNext]_vars

----------------------------------------------------------------------------
(* C18 *)

PricingShown == lastOp.name \in {"calculatePricing", "handleLoadChange"}

\* the price of one accessory entry as stated: a unit price by kind of
\* accessory, times the quantity, and for railings times the length in metres
C18_EntryPrice(a) ==
    CASE a.type = "stairs" /\ IsCornerStairEntry(a)  -> 25000 * Cent * a.quantity
      [] a.type = "stairs" /\ ~IsCornerStairEntry(a) -> 15000 * Cent * a.quantity
      [] a.type = "railings"   -> (800 * Cent * a.length * a.quantity) \div DM
      [] a.type = "palletGate" -> 12000 * Cent * a.quantity

C18_AccessoriesSum(accs) ==
    SumOver(1..Len(accs), [i \in 1..Len(accs) |-> C18_EntryPrice(accs[i])])

C18_Multiplier == [lc \in LoadCapacities |-> CASE lc = 250 -> 10
                                               [] lc = 350 -> 12
                                               [] lc = 500 -> 15]

\* C18: the total price returned is (basePrice + dimensionPrice) x
\* loadMultiplier + accessoriesPrice, the multiplier being 1.0, 1.2, 1.5 for
\* the load classes 250, 350, 500, and accessoriesPrice the sum over the
\* accessories of straight-stair price x quantity, corner-stair price x
\* quantity, railing price per metre x length x quantity and pallet-gate
\* price x quantity.
C18_TotalPriceFormula ==
    PricingShown =>
        LET p == result.pricing
        IN  /\ p.accessoriesPrice = C18_AccessoriesSum(config.accessories)
            /\ p.totalPrice * 10 =
                   (p.basePrice + p.dimensionPrice) * C18_Multiplier[config.loadCapacity]
                     + 10 * p.accessoriesPrice

----------------------------------------------------------------------------
(* C19 *)

\* C19: for fixed dimensions and accessories the total price is strictly
\* increasing in the load class: of the totals shown for one configuration
\* under different load classes, a higher class always has the higher total.
C19_StrictlyIncreasingInLoad ==
    PricingShown =>
        \A a \in DOMAIN result.totals : \A b \in DOMAIN result.totals :
            a < b => result.totals[a] < result.totals[b]

\* all three load classes have been priced for a configuration with accessories
C19_Witness ==
    /\ PricingShown
    /\ DOMAIN result.totals = LoadCapacities
    /\ config.accessories # << >>
    /\ result.totals[250] < result.totals[350]
    /\ result.totals[350] < result.totals[500]

----------------------------------------------------------------------------
(* C20 *)

\* the perimeter calculation of the mounted panel adds the extension
PerimeterAddsExtension ==
    (IF panel = CP
     THEN calculatePerimeter(config.length, config.width, config.accessories)
     ELSE calculatePerimeterSP(config.length, config.width, config.accessories))
        # BasePerimeter(config)

\* q is the quotient n / d
IsQuotient(q, n, d) ==
    /\ q[2] > 0
    /\ d % q[2] = 0
    /\ n = (d \div q[2]) * q[1]

\* C20: squareMeters is length x width / 1e6, plus 4.2 m2 exactly when the
\* configuration contains a corner stair, which is exactly when the
\* perimeter calculation adds the extension; pricePerSquareMeter is
\* totalPrice / squareMeters, and 0 when squareMeters is 0.
C20_AreaAndPricePerSquareMeter ==
    PricingShown =>
        LET p == result.pricing
            hasCorner == CornerStairEntries(config.accessories) # {}
        IN  /\ p.squareMeters = (config.length \div 100) * (config.width \div 100)
                                  + IF hasCorner THEN 420 ELSE 0
            /\ hasCorner <=> PerimeterAddsExtension
            /\ IF p.squareMeters = 0
               THEN p.pricePerSquareMeter = <<0, 1>>
               ELSE IsQuotient(p.pricePerSquareMeter, p.totalPrice, p.squareMeters)

----------------------------------------------------------------------------
(* C21 *)

\* a / b < c / d for a, c >= 0 and b, d > 0, by comparing whole parts and
\* then the reciprocals of the fractional parts
RECURSIVE LessFraction(_, _, _, _)
LessFraction(a, b, c, d) ==
    IF a \div b # c \div d THEN a \div b < c \div d
    ELSE IF c % d = 0 THEN FALSE
    ELSE IF a % b = 0 THEN TRUE
    ELSE LessFraction(d, c % d, b, a % b)

\* C21: whenever the total price is positive, both monthly leasing amounts
\* are positive and the 60-month amount is strictly below the 36-month one.
C21_LeasingOrdered ==
    (PricingShown /\ result.pricing.totalPrice > 0) =>
        LET l3 == result.pricing.leasing3Years
            l5 == result.pricing.leasing5Years
        IN  /\ l3[1] > 0 /\ l3[2] > 0
            /\ l5[1] > 0 /\ l5[2] > 0
            /\ LessFraction(l5[1], l5[2], l3[1], l3[2])

\* a priced configuration with accessories whose 36-month amount is
\* totalPrice x 0.029 / 36
C21_Witness ==
    /\ PricingShown
    /\ result.pricing.totalPrice > 0
    /\ config.accessories # << >>
    /\ IsQuotient(result.pricing.leasing3Years, result.pricing.totalPrice * 29, 36000)

----------------------------------------------------------------------------
(* The configuration kept in localStorage by App through useLocalStorage *)

\* a decimal number of metres held in decimetres, as JSON prints it
NumberText(l) ==
    IF l % DM = 0 THEN ToString(l \div DM)
    ELSE ToString(l \div DM) \o "." \o ToString(l % DM)

IdText(id) ==
    id[1] \o "-" \o (IF id[2] = DefaultStamp THEN "default" ELSE ToString(id[2]))

Quoted(t) == "\"" \o t \o "\""

\* JSON.stringify of one accessory: keys in insertion order, absent
\* (undefined) properties left out
AccessoryText(a) ==
    "{\"id\":" \o Quoted(IdText(a.id))
      \o ",\"type\":" \o Quoted(a.type)
      \o ",\"quantity\":" \o ToString(a.quantity)
      \o (IF a.stairType # Undefined THEN ",\"stairType\":" \o Quoted(a.stairType) ELSE "")
      \o (IF a.type = "railings" THEN ",\"length\":" \o NumberText(a.length) ELSE "")
      \o (IF a.width # Undefined THEN ",\"width\":" \o Quoted(a.width) ELSE "")
      \o "}"

RECURSIVE AccessoriesText(_)
AccessoriesText(accs) ==
    IF accs = << >> THEN ""
    ELSE AccessoryText(Head(accs))
           \o (IF Tail(accs) = << >> THEN "" ELSE "," \o AccessoriesText(Tail(accs)))

JSON_stringify(cfg) ==
    "{\"length\":" \o ToString(cfg.length)
      \o ",\"width\":" \o ToString(cfg.width)
      \o ",\"height\":" \o ToString(cfg.height)
      \o ",\"loadCapacity\":" \o ToString(cfg.loadCapacity)
      \o ",\"accessories\":[" \o AccessoriesText(cfg.accessories) \o "]}"

\* DEFAULT_CONFIG with the height and load class App gives it
APP_DEFAULT_CONFIG ==
    [length |-> DEFAULT_CONFIG.length, width |-> DEFAULT_CONFIG.width,
     height |-> 3000, loadCapacity |-> 250,
     accessories |-> DEFAULT_CONFIG.accessories]

\* a setter that writes first and lets the exception of the write escape
setValue_Uncaught(value, quotaLeft) ==
    /\ config' = IF quotaLeft THEN value ELSE config
    /\ storage' = IF quotaLeft
                  THEN [storage EXCEPT !.item = JSON_stringify(value),
                                       !.setItem = "stored", !.thrown = FALSE]
                  ELSE [storage EXCEPT !.setItem = "threw", !.thrown = TRUE]

\* useLocalStorage's setter: the state takes the value, the value is written
\* to the store as JSON, and an exception of the write is caught
setValue(value, quotaLeft) ==
    /\ config' = value
    /\ storage' = IF quotaLeft
                  THEN [storage EXCEPT !.item = JSON_stringify(value),
                                       !.setItem = "stored", !.thrown = FALSE]
                  ELSE [storage EXCEPT !.setItem = "threw", !.thrown = FALSE]

handleConfigChange(newConfig) ==
    /\ \E quotaLeft \in BOOLEAN : setValue(newConfig, quotaLeft)
    /\ lastOp' = [name |-> "handleConfigChange", id |-> NoId, updates |-> newConfig]
    /\ UNCHANGED <<panel, now, called, alerted, result, walk, form>>

\* localStorage.removeItem, then setConfig(DEFAULT_CONFIG)
handleReset ==
    /\ \E quotaLeft \in BOOLEAN :
          /\ config' = APP_DEFAULT_CONFIG
          /\ storage' = IF quotaLeft
                        THEN [item |-> JSON_stringify(APP_DEFAULT_CONFIG),
                              setItem |-> "stored", thrown |-> FALSE]
                        ELSE [item |-> Undefined, setItem |-> "threw", thrown |-> FALSE]
    /\ lastOp' = [name |-> "handleReset", id |-> NoId, updates |-> APP_DEFAULT_CONFIG]
    /\ UNCHANGED <<panel, now, called, alerted, result, walk, form>>

\* values the sliders are moved to
StoreSliderValues == [length |-> {2000, 13000}, width |-> {2000, 3000}, height |-> {3000, 6000}]

\* handleDimensionChange(field, value) with App's handleConfigChange as onConfigChange
StoreDimensionSlider ==
    \E field \in {"length", "width", "height"} : \E value \in StoreSliderValues[field] :
        /\ value # config[field]
        /\ handleConfigChange([config EXCEPT ![field] = value])

\* handleLoadChange(load) with App's handleConfigChange as onConfigChange
StoreLoadButton ==
    \E load \in {250, 350, 500} :
        /\ load # config.loadCapacity
        /\ handleConfigChange([config EXCEPT !.loadCapacity = load])

StoreInit ==
    /\ panel = CP
    /\ config = APP_DEFAULT_CONFIG
    /\ now = 1
    /\ lastOp = [name |-> "init", id |-> NoId, updates |-> NoUpdates]
    /\ called = FALSE
    /\ alerted = NoAlert
    /\ result = NoResult
    /\ walk = NoWalk
    /\ storage = NoStorage
    /\ form = NoForm

StoreNext ==
    \/ StoreDimensionSlider
    \/ StoreLoadButton
    \/ handleReset

SpecStore == StoreInit /\ [][StoreNext]_vars

----------------------------------------------------------------------------
(* C22 *)

\* C22: setting a new configuration never lets the exception of a failing
\* write escape, the configuration in memory is the new value whether or
\* not the write failed, and after a write that succeeded the store holds
\* the JSON text of the new value.
C22_WriteFailureTolerated ==
    lastOp.name \in {"handleConfigChange", "handleReset"} =>
        /\ ~storage.thrown
        /\ config = lastOp.updates
        /\ storage.setItem = "stored" => storage.item = JSON_stringify(lastOp.updates)

\* a write failed after an earlier one had succeeded: memory has the new
\* value, the store still the JSON text of the old one
C22_Witness ==
    /\ lastOp.name = "handleConfigChange"
    /\ storage.setItem = "threw"
    /\ config.length = 2000
    /\ storage.item = "{\"length\":13000,\"width\":3000,\"height\":3000,\"loadCapacity\":350,"
                       \o "\"accessories\":[{\"id\":\"railings-default\",\"type\":\"railings\","
                       \o "\"quantity\":1,\"length\":1}]}"

----------------------------------------------------------------------------
(* C23 *)

RailingsFit(cfg) == TotalRailing(cfg.accessories) <= AvailablePerimeterIn(panel, cfg)

\* the entry with the given id, before and after the step
EntryOf(cfg, id) == cfg.accessories[CHOOSE i \in 1..Len(cfg.accessories) : cfg.accessories[i].id = id]

\* C23: a successful update that changes a pallet gate's width, or changes a
\* stair's variant to or from a corner variant, leaves the total railing
\* length at most the available perimeter of the resulting configuration
\* (checked from configurations whose railings fit, so that the excess can
\* only come from this update).
C23_FitAfterWidthOrVariantChange ==
    [][ ( /\ lastOp'.name = "updateAccessory"
          /\ called'
          /\ RailingsFit(config)
          /\ \/ /\ lastOp'.id[1] = "palletGate"
                /\ "width" \in DOMAIN lastOp'.updates
             \/ /\ lastOp'.id[1] = "stairs"
                /\ "stairType" \in DOMAIN lastOp'.updates
                /\ IsCornerStairEntry(EntryOf(config, lastOp'.id))
                     # IsCornerStairEntry(EntryOf(config', lastOp'.id)) )
        => RailingsFit(config') ]_vars

----------------------------------------------------------------------------
(* C24 *)

\* C24: removeAccessory never rejects, and removing an accessory from a
\* configuration whose railings fit leaves the total railing length at most
\* the available perimeter of the resulting configuration.
C24_FitAfterRemove ==
    [][ lastOp'.name = "removeAccessory"
        => /\ called'
           /\ RailingsFit(config) => RailingsFit(config') ]_vars

----------------------------------------------------------------------------
(* The panel with its length and width sliders *)

\* positions the sliders are moved to (min 2000, max 20000, step 100)
SliderValues == [length |-> {2000, 13000}, width |-> {3000, 5000}]

\* onConfigChange({ ...config, [field]: value })
handleDimensionChange(field, value) ==
    /\ config' = [config EXCEPT ![field] = value]
    /\ called' = TRUE
    /\ alerted' = NoAlert
    /\ lastOp' = [name |-> "handleDimensionChange", id |-> NoId,
                  updates |-> [f \in {field} |-> value]]
    /\ UNCHANGED <<panel, now, result, walk, storage, form>>

DimensionSlider ==
    \E field \in {"length", "width"} : \E value \in SliderValues[field] :
        /\ value # config[field]
        /\ handleDimensionChange(field, value)

DimNext ==
    \/ Next
    \/ DimensionSlider

SpecDim == Init /\ [][DimNext]_vars

----------------------------------------------------------------------------
(* C25 *)

\* C25: a change of the platform's length or width, made in a configuration
\* whose railings fit, leaves the total railing length at most the
\* available perimeter of the resulting configuration.
C25_FitAfterDimensionChange ==
    [][ (lastOp'.name = "handleDimensionChange" /\ RailingsFit(config))
        => RailingsFit(config') ]_vars

----------------------------------------------------------------------------
(* C26 *)

\* C26: in every reachable state the identifiers of the accessories are
\* pairwise distinct, also after two adds of the same kind between which
\* the clock did not advance.
C26_IdsPairwiseDistinct ==
    \A i \in 1..Len(config.accessories) : \A j \in 1..Len(config.accessories) :
        i # j => config.accessories[i].id # config.accessories[j].id

----------------------------------------------------------------------------
(* C27 *)

\* the length of the edge of the given name
EdgeLengthOf(cfg, name) ==
    LET segs == perimeterSegments(cfg)
    IN  segs[CHOOSE i \in 1..Len(segs) : segs[i].edge = name].edgeLength

\* C27: every placement is longer than 0 and at most 3 m long and lies
\* within its edge: it starts at an offset >= 0 and ends at or before the
\* end of the edge.
C27_PlacementWithinEdge ==
    \A pl \in walk.placements :
        /\ pl.to - pl.from > 0
        /\ pl.to - pl.from <= 3 * CM
        /\ pl.from >= 0
        /\ pl.to <= EdgeLengthOf(config, pl.edge)

\* a 3 m placement ending exactly at the end of a side edge, and a shorter
\* one cut at a stair or gate range on the front edge
C27_Witness ==
    /\ walk.status = "returned"
    /\ \E pl \in walk.placements :
          /\ pl.edge # "front"
          /\ pl.to - pl.from = 3 * CM
          /\ pl.to = EdgeLengthOf(config, pl.edge)
    /\ \E pl \in walk.placements :
          /\ pl.edge = "front"
          /\ pl.to - pl.from < 3 * CM
          /\ pl.to < EdgeLengthOf(config, pl.edge)
    /\ hasRepos(config.accessories)
    /\ \E pl \in walk.placements : pl.edge = "left" /\ pl.to = EdgeLengthOf(config, "left")

----------------------------------------------------------------------------
(* C28 *)

\* C28: the ordered edge list partitions the perimeter of the walk: every
\* edge starts at the sum of the lengths of the edges before it, the edge
\* lengths add up to the perimeter at which the cursor wraps, and the
\* cursor is always on the stretch of some edge.
C28_EdgesPartitionPerimeter ==
    walk.entry >= 1 =>
        LET segs == perimeterSegments(config)
            lengths == [i \in 1..Len(segs) |-> segs[i].edgeLength]
        IN  /\ \A i \in 1..Len(segs) : segs[i].edgeStartDist = SumTo(lengths, i - 1)
            /\ SumTo(lengths, Len(segs)) = walk.perimeter
            /\ \E i \in 1..Len(segs) :
                  /\ walk.currentDistance >= segs[i].edgeStartDist
                  /\ walk.currentDistance < segs[i].edgeStartDist + segs[i].edgeLength

----------------------------------------------------------------------------
(* C29 *)

\* entry b is entry a untouched, or railing a with quantity and per-unit
\* length not increased
C29_SameOrShrunk(a, b) ==
    IF a.type = "railings"
    THEN /\ b = [a EXCEPT !.quantity = b.quantity, !.length = b.length]
         /\ b.quantity <= a.quantity
         /\ b.length <= a.length
    ELSE b = a

\* C29: the list auto-fit returns is its input with some railing entries
\* removed and the other entries in their order, stairs and pallet gates
\* untouched, and no railing entry with a larger quantity or a larger
\* per-unit length than before (checked on configurations with distinct ids
\* whose railings have quantity >= 1 and length >= 1 m).
C29_AutoFitOnlyShrinksRailings ==
    ( /\ lastOp.name = "autoAdjustRailingsForPerimeter"
      /\ C26_IdsPairwiseDistinct
      /\ ValidRailings(config.accessories) ) =>
        \E removed \in SUBSET RailingEntries(config.accessories) :
            LET kept == WithoutPositions(config.accessories, removed)
            IN  /\ Len(kept) = Len(result.accessories)
                /\ \A k \in 1..Len(kept) : C29_SameOrShrunk(kept[k], result.accessories[k])
----------------------------------------------------------------------------
(* QuoteRequestForm.tsx in App.tsx: the price request form.  A text is the
   sequence of its characters.  form.instances[i] is the state of the i-th
   mounted QuoteRequestForm; the mounted one, if any, is the last.  React
   drops a state update of a component that is no longer mounted. *)

MaxForms == 2
MaxSubmissions == 2

Whitespace == {" ", "\t", "\n"}

\* String.prototype.trim
RECURSIVE trimStart(_)
trimStart(s) ==
    IF Len(s) > 0 /\ Head(s) \in Whitespace THEN trimStart(Tail(s)) ELSE s

RECURSIVE trimEnd(_)
trimEnd(s) ==
    IF Len(s) > 0 /\ s[Len(s)] \in Whitespace
    THEN trimEnd(SubSeq(s, 1, Len(s) - 1))
    ELSE s

trim(s) == trimEnd(trimStart(s))

\* [^\s@]+ matches the whole of s
NoSpaceNoAt(s) ==
    /\ Len(s) >= 1
    /\ \A k \in 1..Len(s) : s[k] \notin Whitespace /\ s[k] # "@"

\* /^[^\s@]+@[^\s@]+\.[^\s@]+$/.test(s)
emailRegex_test(s) ==
    \E a \in 1..Len(s) : \E d \in 1..Len(s) :
        /\ a < d
        /\ s[a] = "@"
        /\ s[d] = "."
        /\ NoSpaceNoAt(SubSeq(s, 1, a - 1))
        /\ NoSpaceNoAt(SubSeq(s, a + 1, d - 1))
        /\ NoSpaceNoAt(SubSeq(s, d + 1, Len(s)))

Status(success, message) == <<[success |-> success, message |-> message]>>
NullStatus == << >>

\* validateForm without the format test of the address
validateForm_NoEmailFormat(formData) ==
    IF Len(trim(formData.name)) = 0 THEN Status(FALSE, "Name is required")
    ELSE IF Len(trim(formData.email)) = 0 THEN Status(FALSE, "Email is required")
    ELSE IF Len(trim(formData.telephone)) = 0 THEN Status(FALSE, "Telephone is required")
    ELSE IF Len(trim(formData.postalCode)) = 0 THEN Status(FALSE, "Postal code is required")
    ELSE NullStatus

\* validateForm: the status it sets, NullStatus when it returns true
validateForm(formData) ==
    IF Len(trim(formData.name)) = 0 THEN Status(FALSE, "Name is required")
    ELSE IF Len(trim(formData.email)) = 0 THEN Status(FALSE, "Email is required")
    ELSE IF Len(trim(formData.telephone)) = 0 THEN Status(FALSE, "Telephone is required")
    ELSE IF Len(trim(formData.postalCode)) = 0 THEN Status(FALSE, "Postal code is required")
    ELSE IF ~emailRegex_test(formData.email) THEN Status(FALSE, "Invalid email format")
    ELSE NullStatus

\* useState(false) and useState(null) of a form that has just been mounted
MountedForm == [isSubmitting |-> FALSE, submitStatus |-> NullStatus]

\* the instance on screen, 0 when the form is not shown
Mounted == IF form.showQuoteForm THEN Len(form.instances) ELSE 0

\* setIsSubmitting / setSubmitStatus called by instance i
SetState(i, isSubmitting, submitStatus) ==
    IF i = Mounted
    THEN [form.instances EXCEPT ![i] = [isSubmitting |-> isSubmitting,
                                        submitStatus |-> submitStatus]]
    ELSE form.instances

\* the texts typed into the fields
FieldTexts ==
    [name       |-> {<< >>, <<" ">>, <<"A">>},
     email      |-> {<< >>, <<"a", "@", "b">>, <<"a", "@", "b", ".", "c">>,
                     <<" ", "a", "@", "b", ".", "c">>},
     telephone  |-> {<< >>, <<"1">>},
     postalCode |-> {<< >>, <<"7">>}]

\* App: onRequestQuote mounts a form
onRequestQuote ==
    /\ ~form.showQuoteForm
    /\ Len(form.instances) < MaxForms
    /\ form' = [form EXCEPT !.showQuoteForm = TRUE,
                            !.formData = NoForm.formData,
                            !.instances = Append(@, MountedForm)]
    /\ lastOp' = [name |-> "onRequestQuote", id |-> NoId, updates |-> NoUpdates]
    /\ UNCHANGED <<panel, config, now, called, alerted, result, walk, storage>>

handleInputChange(field, value) ==
    /\ form.showQuoteForm
    /\ form' = [form EXCEPT !.formData[field] = value]
    /\ lastOp' = [name |-> "handleInputChange", id |-> NoId, updates |-> NoUpdates]
    /\ UNCHANGED <<panel, config, now, called, alerted, result, walk, storage>>

\* handleSubmit up to its await; the button is disabled while isSubmitting
handleSubmit ==
    /\ form.showQuoteForm
    /\ ~form.instances[Mounted].isSubmitting
    /\ LET invalid == validateForm(form.formData)
       IN  IF invalid # NullStatus
           THEN /\ form' = [form EXCEPT !.instances = SetState(Mounted, FALSE, invalid)]
                /\ lastOp' = [name |-> "handleSubmit", id |-> NoId, updates |-> [sent |-> FALSE]]
           ELSE /\ form.sent < MaxSubmissions
                /\ form' = [form EXCEPT !.instances = SetState(Mounted, TRUE, NullStatus),
                                        !.pending = @ \cup {Mounted},
                                        !.sent = @ + 1]
                /\ lastOp' = [name |-> "handleSubmit", id |-> NoId, updates |-> [sent |-> TRUE]]
    /\ UNCHANGED <<panel, config, now, called, alerted, result, walk, storage>>

\* how the awaited call ends: submitQuoteRequest resolves with success
\* (Math.random() > 0.1) or without; a transport in its place may reject
Outcomes == {"success", "failure", "rejected"}

\* handleSubmit after its await, for the call instance i sent
submitQuoteRequest_settles(i, outcome) ==
    /\ i \in form.pending
    /\ LET status ==
               CASE outcome = "success" ->
                        Status(TRUE, "Quote request submitted successfully! We will contact you soon.")
                 [] outcome = "failure" ->
                        Status(FALSE, "Failed to submit quote request. Please try again later.")
                 [] outcome = "rejected" ->
                        Status(FALSE, "An error occurred while submitting the request")
       IN  form' = [form EXCEPT !.instances = SetState(i, FALSE, status),
                                !.pending = @ \ {i},
                                !.timers = IF outcome = "success" THEN @ \cup {i} ELSE @,
                                !.succeeded = IF outcome = "success" THEN @ \cup {i} ELSE @]
    /\ lastOp' = [name |-> "submitQuoteRequest", id |-> NoId,
                  updates |-> [instance |-> i, outcome |-> outcome]]
    /\ UNCHANGED <<panel, config, now, called, alerted, result, walk, storage>>

\* setTimeout(() => onClose(), 2000) of instance i fires
closeTimeout(i) ==
    /\ i \in form.timers
    /\ form' = [form EXCEPT !.showQuoteForm = FALSE, !.formData = NoForm.formData,
                            !.timers = @ \ {i}]
    /\ lastOp' = [name |-> "closeTimeout", id |-> NoId, updates |-> [instance |-> i]]
    /\ UNCHANGED <<panel, config, now, called, alerted, result, walk, storage>>

\* the x button; the form is unmounted and its fields are gone
onClose ==
    /\ form.showQuoteForm
    /\ form' = [form EXCEPT !.showQuoteForm = FALSE, !.formData = NoForm.formData]
    /\ lastOp' = [name |-> "onClose", id |-> NoId, updates |-> NoUpdates]
    /\ UNCHANGED <<panel, config, now, called, alerted, result, walk, storage>>

InputChange == \E field \in DOMAIN FieldTexts : \E value \in FieldTexts[field] :
                   handleInputChange(field, value)
Settles == \E i \in 1..MaxForms : \E outcome \in Outcomes :
               submitQuoteRequest_settles(i, outcome)
CloseTimeout == \E i \in 1..MaxForms : closeTimeout(i)

FormNext ==
    \/ onRequestQuote
    \/ InputChange
    \/ handleSubmit
    \/ Settles
    \/ CloseTimeout
    \/ onClose

\* the 1500 ms of the call and the 2000 ms of the timer elapse
SpecForm == StoreInit /\ [][FormNext]_vars /\ WF_vars(Settles) /\ WF_vars(CloseTimeout)
----------------------------------------------------------------------------
(* C30 *)

\* the text has a character that is not white space
NonBlank(s) == \E k \in 1..Len(s) : s[k] \notin Whitespace

\* one @, no white space, something before the @ and, after it, a dot with
\* something on both sides
WellFormed(s) ==
    /\ Cardinality({k \in 1..Len(s) : s[k] = "@"}) = 1
    /\ \A k \in 1..Len(s) : s[k] \notin Whitespace
    /\ LET a == CHOOSE k \in 1..Len(s) : s[k] = "@"
       IN  /\ a > 1
           /\ \E d \in (a + 2)..(Len(s) - 1) : s[d] = "."

ValidationPasses ==
    /\ NonBlank(form.formData.name)
    /\ NonBlank(form.formData.email)
    /\ NonBlank(form.formData.telephone)
    /\ NonBlank(form.formData.postalCode)
    /\ WellFormed(form.formData.email)

\* a step that sends a submission
Sends == form'.sent > form.sent

\* the step in which the call of instance i settles
SettlesFor(i) == i \in form.pending /\ i \notin form'.pending

Ended(i) ==
    /\ ~form.instances[i].isSubmitting
    /\ form.instances[i].submitStatus # NullStatus

\* the timer closes the form
ClosesAutomatically == lastOp'.name = "closeTimeout" /\ form.showQuoteForm

====
